---- MODULE Spec2Model ----
(***************************************************************************)
(* Model of the 3D gizmo of the scene editor:                              *)
(*   newIDE/app/src/InstancesEditor/Gizmo3DController.js                   *)
(*   newIDE/app/src/InstancesEditor/SelectedInstances3D.js                 *)
(*                                                                         *)
(* Numbers.  The code computes with JavaScript doubles; the model uses     *)
(* integers and keeps every formula of the code exact:                     *)
(*   - positions of instances (X, Y, Z) are stored in HALF units, so that  *)
(*     position.x - getWidth() / 2 is the integer 2*position.x - width;    *)
(*   - rotations of nodes are stored in units of pi / PiUnits radians, so  *)
(*     that r * 180 / Math.PI is the integer (r * 180) \div PiUnits;       *)
(*   - sizes, node positions and scale factors are plain integers.         *)
(***************************************************************************)
EXTENDS Integers, Sequences, FiniteSets, TLC

Null == "null"

(* ---------------------------------------------------------------------- *)
(* Bounds of the model                                                     *)
(* ---------------------------------------------------------------------- *)

\* number of times the widget may move the attached node in one behaviour
MaxEdits == 1

\* number of completed edits that may be applied to instances in one behaviour
MaxApplied == 2

\* number of SelectedInstances3D operations that may follow its dispose()
MaxAfterDispose == 1

\* number of update() calls that may advance the camera in one behaviour
MaxUpdates == 2

\* number of camera inputs and operations other than update, enable and disable
MaxInputs == 3

\* a half turn (pi radians) is PiUnits rotation units
PiUnits == 4

(* ---------------------------------------------------------------------- *)
(* The scene: nodes (THREE.Object3D), their parents, the instances         *)
(* ---------------------------------------------------------------------- *)

Nodes == {"n1", "n2", "n3", "n4"}

\* Object3D.parent: n3 is a child of n1, n4 a child of n3; n1 and n2 are roots
parent == [n \in Nodes |-> CASE n = "n3" -> "n1" [] n = "n4" -> "n3" [] OTHER -> Null]

Instances == {"i1", "i2"}

Modes == {"translate", "rotate", "scale"}

Spaces == {"local", "world"}

\* the domain setters of an instance (spec section 6)
Setters == {"setX", "setY", "setZ", "setWidth", "setHeight", "setDepth",
            "setAngle", "setRotationX", "setRotationY"}

\* the other members _onObjectChanged tests for before using them
OptionalMembers == {"hasCustomSize", "getDepth", "_getOriginalWidth",
                    "_getOriginalHeight", "_getOriginalDepth"}

\* instance kinds: the set of optional members an instance of the kind has
\* a 3D instance with every member
Kind3D == Setters \cup OptionalMembers

\* a 2D instance: no Z, no depth, no X or Y rotation, no record of its original size
Kind2D == {"setX", "setY", "setWidth", "setHeight", "setAngle", "hasCustomSize"}

\* an instance with a Z position but neither hasCustomSize nor a depth
KindZOnly == {"setX", "setY", "setZ", "setWidth", "setHeight",
              "setAngle", "setRotationX", "_getOriginalHeight"}

\* an instance without setX and without any size setter
KindNoXW == {"setY", "setZ", "setRotationY", "hasCustomSize",
             "getDepth", "_getOriginalWidth"}

Kinds == {Kind3D, Kind2D, KindZOnly, KindNoXW}

\* the kinds of the instances of a scene
InstanceKinds == {[i \in Instances |-> IF i = "i1" THEN k ELSE Kind3D] : k \in Kinds}

Vec(x, y, z) == [x |-> x, y |-> y, z |-> z]

\* a userData field that was never written (undefined), and the test for a written one
Undefined == [undefined |-> TRUE]

IsSet(v) == DOMAIN v = {"x", "y", "z"}

\* the value of handled when no completed edit was applied
NoEdit == [instance |-> Null, transformType |-> Null]

\* transforms the widget may give to the attached node while it is dragged
DragPositions == {Vec(10, 4, 0)}

DragRotations == {Vec(1, 0 - PiUnits, PiUnits)}

DragScales == {Vec(0 - 2, 3, 2)}

\* selections and instance-to-node maps the host may pass to updateSelection;
\* a map is the sequence of its entries, in iteration order
Selections == {<< >>, <<"i1">>, <<"i2">>, <<"i1", "i2">>}

Maps == { << <<"i1", "n1">> >>,
          << <<"i2", "n4">>, <<"i1", "n1">> >> }

Abs(v) == IF v < 0 THEN 0 - v ELSE v


(* ---------------------------------------------------------------------- *)
(* State                                                                   *)
(* ---------------------------------------------------------------------- *)

VARIABLES
  host,                 \* how the gizmo is used: "sync" (SelectedInstances3D with a
                        \* renderer, camera and scene), "none" (SelectedInstances3D
                        \* without them), "direct" (Gizmo3DController on its own)
  selectedInstances3D,  \* the fields of SelectedInstances3D
  gizmo,                \* the fields of Gizmo3DController, its TransformControls included
  objects,              \* per node: position, rotation, scale, userData
  instances,            \* per instance: X, Y, Z (half units), W, H, D, A, RX, RY
  kind,                 \* per instance: the optional members it has
  originalSize,         \* per instance: its size when the current drag began
  edits,                \* number of moves the widget made so far
  applied,              \* number of completed edits applied so far
  afterDispose,         \* number of SelectedInstances3D operations since its dispose()
  handled,              \* NoEdit, or the instance and kind the last objectChange applied
  calls,                \* setters invoked by the last operation
  thrown,               \* Null, or the missing member the last operation tried to call
  notified,             \* onInstanceTransformed invocations of the last operation
  objectChanged,        \* onObjectChanged invocations of the last operation
  toggleRun,            \* length (1 or 2) of the current run of toggleSpace calls, else 0
  spaceAtRunStart,      \* the space reported when that run began
  freeCamera,           \* the fields of FreeCameraController, its camera and the
                        \* listeners it registered included; NoCamera if none was made
  updates,              \* number of update() calls that advanced the camera so far
  inputs,               \* number of camera inputs and operations so far
  sinceEnable           \* the mouse button and the keys pressed, and not released,
                        \* since enable() last enabled the camera controller

vars == << host, selectedInstances3D, gizmo, objects, instances, kind, originalSize,
           edits, applied, afterDispose, handled, calls, thrown, notified, objectChanged,
           toggleRun, spaceAtRunStart, freeCamera, updates, inputs,
           sinceEnable >>

\* the variables of the camera controller, which no gizmo operation touches
Camera == << freeCamera, updates, inputs, sinceEnable >>

\* the value of freeCamera when no FreeCameraController was constructed
NoCamera == [constructed |-> FALSE]

\* the value of sinceEnable when nothing was pressed since enable()
NothingPressed == [mouseDown |-> FALSE, keys |-> {}]

(* ---------------------------------------------------------------------- *)
(* Gizmo3DController                                                       *)
(* ---------------------------------------------------------------------- *)

\* TransformControls as the constructor leaves it
TransformControls_new ==
  [ object |-> Null, mode |-> "translate", space |-> "local",
    enabled |-> TRUE, visible |-> FALSE, dragging |-> FALSE,
    listeners |-> {"change", "objectChange"}, disposed |-> FALSE ]

\* Gizmo3DController after its constructor
Gizmo3DController_new ==
  [ currentObject |-> Null, currentMode |-> "translate", isEnabled |-> FALSE,
    transformControls |-> TransformControls_new ]

\* no Gizmo3DController was constructed: no widget, no listener
Gizmo3DController_none ==
  [ Gizmo3DController_new EXCEPT !.transformControls.listeners = {},
                                 !.transformControls.enabled = FALSE ]

\* TransformControls.attach(object) and detach(), as setObject and setEnabled use them
attach(tc, object) == [tc EXCEPT !.object = object, !.visible = TRUE]

detach(tc) == [tc EXCEPT !.object = Null, !.visible = FALSE]

\* setObject that attaches although the gizmo is disabled
Gizmo3DController_setObject_AttachAlways(g, object) ==
  LET g1 == [g EXCEPT !.currentObject = object,
                      !.transformControls = detach(g.transformControls)]
  IN  IF object # Null
        THEN [g1 EXCEPT !.transformControls = attach(g1.transformControls, object)]
        ELSE g1

Gizmo3DController_setObject(g, object) ==
  LET g1 == [g EXCEPT !.currentObject = object,
                      !.transformControls = detach(g.transformControls)]
  IN  IF object # Null /\ g1.isEnabled
        THEN [g1 EXCEPT !.transformControls = attach(g1.transformControls, object)]
        ELSE g1

\* setMode that puts the widget back into local space
Gizmo3DController_setMode_ResetsSpace(g, mode) ==
  [g EXCEPT !.currentMode = mode, !.transformControls.mode = mode,
            !.transformControls.space = "local"]

Gizmo3DController_setMode(g, mode) ==
  [g EXCEPT !.currentMode = mode, !.transformControls.mode = mode]

\* a toggle that can only leave 'local'
ToggledSpace_Stuck(currentSpace) == "world"

ToggledSpace(currentSpace) == IF currentSpace = "local" THEN "world" ELSE "local"

Gizmo3DController_toggleSpace(g) ==
  [g EXCEPT !.transformControls.space = ToggledSpace(g.transformControls.space)]

Gizmo3DController_setEnabled(g, enabled) ==
  LET g1 == [g EXCEPT !.isEnabled = enabled,
                      !.transformControls.enabled = enabled,
                      !.transformControls.visible = enabled]
  IN  IF ~enabled
        THEN [g1 EXCEPT !.transformControls = detach(g1.transformControls)]
        ELSE IF g1.currentObject # Null
          THEN [g1 EXCEPT !.transformControls =
                            attach(g1.transformControls, g1.currentObject)]
          ELSE g1

Gizmo3DController_isDragging(g) == g.transformControls.dragging

Gizmo3DController_getCurrentMode(g) == g.currentMode

\* dispose that removes only the 'objectChange' listener
Gizmo3DController_dispose_KeepsChange(g) ==
  [g EXCEPT !.transformControls.listeners = @ \ {"objectChange"},
            !.transformControls.disposed = TRUE]

Gizmo3DController_dispose(g) ==
  [g EXCEPT !.transformControls.listeners = {},
            !.transformControls.disposed = TRUE]

\* _updateObject3DFromControls: the pending-edit annotation of the current object
updateObject3DFromControls(g, objs) ==
  IF g.currentObject = Null THEN objs
  ELSE LET o == objs[g.currentObject]
       IN  [objs EXCEPT ![g.currentObject].userData =
              [ needsUpdate |-> TRUE, position |-> o.position,
                rotation |-> o.rotation, scale |-> o.scale ]]

\* _onControlsChange, the listener of the widget's 'change' event
onControlsChange(g, objs) ==
  IF g.currentObject # Null THEN updateObject3DFromControls(g, objs) ELSE objs

(* ---------------------------------------------------------------------- *)
(* SelectedInstances3D: the handler of a completed edit                    *)
(* ---------------------------------------------------------------------- *)

\* Map.get(instance): the node of the first entry for the instance, else Null
MapGet(map, instance) ==
  LET ks == {k \in 1..Len(map) : map[k][1] = instance}
  IN  IF ks = {} THEN Null
      ELSE map[CHOOSE k \in ks : \A j \in ks : k <= j][2]

RECURSIVE WalkUp(_, _)
\* the loop of _isChildOf: is p reached from current by following .parent
WalkUp(current, p) ==
  IF current = Null THEN FALSE
  ELSE IF current = p THEN TRUE
  ELSE WalkUp(parent[current], p)

isChildOf(child, p) == WalkUp(parent[child], p)

\* the test of an entry of the map in _findInstanceForObject
EntryMatches(obj, object) ==
  obj = object \/ parent[obj] = object \/ isChildOf(obj, object)

\* _findInstanceForObject: the instance of the first matching entry, else Null
findInstanceForObject(map, object) ==
  LET ks == {k \in 1..Len(map) : EntryMatches(map[k][2], object)}
  IN  IF ks = {} THEN Null
      ELSE map[CHOOSE k \in ks : \A j \in ks : k <= j][1]

\* the conversion the wrong way round: degrees to radians
RadToDeg_Inverted(r) == (r * PiUnits) \div 180

\* r * 180 / Math.PI, for r in units of pi / PiUnits
RadToDeg(r) == (r * 180) \div PiUnits

\* p - size / 2, in half units
MinusHalf(p, size) == 2 * p - size

\* instance._getOriginalWidth / Height / Depth are defined nowhere in the
\* repository; by the specification they return the pre-scale dimension
getOriginalWidth(i) == originalSize[i].W

getOriginalHeight(i) == originalSize[i].H

getOriginalDepth(i) == originalSize[i].D

\* the effect of a run of setter calls: the instance, the setters invoked,
\* and the missing member whose call raised a TypeError (Null if none)
NoEffect(inst) == [inst |-> inst, calls |-> {}, thrown |-> Null]

\* instance.setter(value): a TypeError if the instance has no such member;
\* nothing runs after an error
Call(e, caps, setter, field, value) ==
  IF e.thrown # Null THEN e
  ELSE IF setter \notin caps THEN [e EXCEPT !.thrown = setter]
  ELSE [e EXCEPT !.inst = [@ EXCEPT ![field] = value], !.calls = @ \cup {setter}]

\* the 'translate' branch of _onObjectChanged
ApplyTranslate(inst, caps, position) ==
  LET e1 == Call(NoEffect(inst), caps, "setX", "X", MinusHalf(position.x, inst.W))
      e2 == Call(e1, caps, "setY", "Y", MinusHalf(position.y, inst.H))
  IN  IF e2.thrown = Null /\ "hasCustomSize" \in caps /\ "setZ" \in caps
        THEN Call(e2, caps, "setZ", "Z",
                  MinusHalf(position.z, IF "getDepth" \in caps THEN inst.D ELSE 0))
        ELSE e2

\* the 'rotate' branch of _onObjectChanged
ApplyRotate(inst, caps, rotation) ==
  LET e0 == NoEffect(inst)
      e1 == IF "setAngle" \in caps
              THEN Call(e0, caps, "setAngle", "A", RadToDeg(rotation.z)) ELSE e0
      e2 == IF "setRotationX" \in caps
              THEN Call(e1, caps, "setRotationX", "RX", RadToDeg(rotation.x)) ELSE e1
  IN  IF "setRotationY" \in caps
        THEN Call(e2, caps, "setRotationY", "RY", RadToDeg(rotation.y)) ELSE e2

\* the 'scale' branch of _onObjectChanged
ApplyScale(i, inst, caps, scale) ==
  LET originalWidth == IF "_getOriginalWidth" \in caps
                         THEN getOriginalWidth(i) ELSE inst.W
      originalHeight == IF "_getOriginalHeight" \in caps
                          THEN getOriginalHeight(i) ELSE inst.H
      e1 == Call(NoEffect(inst), caps, "setWidth", "W", originalWidth * Abs(scale.x))
      e2 == Call(e1, caps, "setHeight", "H", originalHeight * Abs(scale.y))
  IN  IF e2.thrown = Null /\ "setDepth" \in caps /\ "_getOriginalDepth" \in caps
        THEN Call(e2, caps, "setDepth", "D", getOriginalDepth(i) * Abs(scale.z))
        ELSE e2

\* a handler that picks the branch by the annotation present, whatever the
\* transform type
ApplyTransform_ByAnnotation(i, inst, caps, transformType, userData) ==
  IF IsSet(userData.position) THEN ApplyTranslate(inst, caps, userData.position)
  ELSE IF IsSet(userData.rotation) THEN ApplyRotate(inst, caps, userData.rotation)
  ELSE IF IsSet(userData.scale) THEN ApplyScale(i, inst, caps, userData.scale)
  ELSE NoEffect(inst)

\* the setter calls of _onObjectChanged for a pending edit of the given kind
ApplyTransform(i, inst, caps, transformType, userData) ==
  IF transformType = "translate" /\ IsSet(userData.position)
    THEN ApplyTranslate(inst, caps, userData.position)
  ELSE IF transformType = "rotate" /\ IsSet(userData.rotation)
    THEN ApplyRotate(inst, caps, userData.rotation)
  ELSE IF transformType = "scale" /\ IsSet(userData.scale)
    THEN ApplyScale(i, inst, caps, userData.scale)
  ELSE NoEffect(inst)

\* _onObjectChanged(object, transformType): what it leaves behind.  A TypeError
\* leaves the function before the flag is cleared and the callback invoked.
onObjectChanged(object, transformType) ==
  LET instance == findInstanceForObject(selectedInstances3D.instanceToObjectMap, object)
      nothing == [ instances |-> instances, objects |-> objects, handled |-> NoEdit,
                   calls |-> {}, thrown |-> Null, notified |-> << >> ]
  IN  IF instance = Null THEN nothing
      ELSE IF ~objects[object].userData.needsUpdate THEN nothing
      ELSE LET e == ApplyTransform(instance, instances[instance], kind[instance],
                                   transformType, objects[object].userData)
           IN  [ instances |-> [instances EXCEPT ![instance] = e.inst],
                 objects |-> IF e.thrown = Null
                               THEN [objects EXCEPT ![object].userData.needsUpdate = FALSE]
                               ELSE objects,
                 handled |-> [instance |-> instance, transformType |-> transformType],
                 calls |-> e.calls,
                 thrown |-> e.thrown,
                 notified |-> IF e.thrown = Null
                                THEN << <<instance, transformType>> >> ELSE << >> ]

(* ---------------------------------------------------------------------- *)
(* SelectedInstances3D: the operations                                     *)
(* ---------------------------------------------------------------------- *)

\* updateSelection that takes the first instance of any non-empty selection
SelectionObject_AnyLength(selected, map, enabled) ==
  IF Len(selected) >= 1 /\ enabled THEN MapGet(map, selected[1]) ELSE Null

\* the object updateSelection hands to setObject: the node of a single
\* selected instance when enabled, null otherwise
SelectionObject(selected, map, enabled) ==
  IF Len(selected) = 1 /\ enabled THEN MapGet(map, selected[1]) ELSE Null

SelectedInstances3D_updateSelection(s, g, selected, map) ==
  IF ~s.gizmoController THEN g
  ELSE Gizmo3DController_setObject(g, SelectionObject(selected, map, s.enabled))

\* setEnabled that hides the gizmo but never shows it for the selection
ShowOrHideGizmo_NoAttach(s, g, enabled) ==
  IF ~enabled THEN Gizmo3DController_setObject(g, Null) ELSE g

\* setEnabled that, when disabling, leaves the gizmo controller its object
ShowOrHideGizmo_KeepsObject(s, g, enabled) ==
  IF enabled /\ Len(s.selectedInstances) = 1
    THEN LET object == MapGet(s.instanceToObjectMap, s.selectedInstances[1])
         IN  IF object # Null THEN Gizmo3DController_setObject(g, object) ELSE g
  ELSE g

\* the part of setEnabled after gizmoController.setEnabled: show or hide the gizmo
ShowOrHideGizmo(s, g, enabled) ==
  IF enabled /\ Len(s.selectedInstances) = 1
    THEN LET object == MapGet(s.instanceToObjectMap, s.selectedInstances[1])
         IN  IF object # Null THEN Gizmo3DController_setObject(g, object) ELSE g
  ELSE IF ~enabled THEN Gizmo3DController_setObject(g, Null)
  ELSE g

\* setEnabled without the test for a missing gizmo controller
SelectedInstances3D_setEnabled_NoGuard(s, g, enabled) ==
  ShowOrHideGizmo(s, Gizmo3DController_setEnabled(g, enabled), enabled)

SelectedInstances3D_setEnabled(s, g, enabled) ==
  IF ~s.gizmoController THEN g
  ELSE ShowOrHideGizmo(s, Gizmo3DController_setEnabled(g, enabled), enabled)

isDragging ==
  IF selectedInstances3D.gizmoController
    THEN Gizmo3DController_isDragging(gizmo) ELSE FALSE

getCurrentMode == selectedInstances3D.currentMode

getCurrentSpace ==
  IF host = "direct" THEN gizmo.transformControls.space
  ELSE IF selectedInstances3D.gizmoController
    THEN gizmo.transformControls.space ELSE "local"

isAvailable == selectedInstances3D.gizmoController

(* ---------------------------------------------------------------------- *)
(* Initial state                                                           *)
(* ---------------------------------------------------------------------- *)

InitialObject ==
  [ position |-> Vec(0, 0, 0), rotation |-> Vec(0, 0, 0), scale |-> Vec(1, 1, 1),
    userData |-> [ needsUpdate |-> FALSE, position |-> Undefined,
                   rotation |-> Undefined, scale |-> Undefined ] ]

InitialInstances ==
  [ i \in Instances |->
      IF i = "i1"
        THEN [X |-> 0, Y |-> 0, Z |-> 5, W |-> 6, H |-> 8, D |-> 4,
              A |-> 0, RX |-> 0, RY |-> 0]
        ELSE [X |-> 2, Y |-> 4, Z |-> 0, W |-> 10, H |-> 3, D |-> 5,
              A |-> 90, RX |-> 0, RY |-> 0] ]

SizeOf(inst) == [W |-> inst.W, H |-> inst.H, D |-> inst.D]

Init ==
  /\ host \in {"sync", "none", "direct"}
  /\ selectedInstances3D =
       [ selectedInstances |-> << >>, instanceToObjectMap |-> << >>,
         currentMode |-> "translate", enabled |-> FALSE,
         gizmoController |-> (host = "sync") ]
  /\ gizmo = IF host = "none" THEN Gizmo3DController_none ELSE Gizmo3DController_new
  /\ objects = [n \in Nodes |-> InitialObject]
  /\ instances = InitialInstances
  /\ kind \in IF host = "sync" THEN InstanceKinds
                       ELSE {[i \in Instances |-> Kind3D]}
  /\ originalSize = [i \in Instances |-> SizeOf(InitialInstances[i])]
  /\ edits = 0
  /\ applied = 0
  /\ afterDispose = 0
  /\ handled = NoEdit
  /\ calls = {}
  /\ thrown = Null
  /\ notified = << >>
  /\ objectChanged = << >>
  /\ toggleRun = 0
  /\ spaceAtRunStart = "local"
  /\ freeCamera = NoCamera
  /\ updates = 0
  /\ inputs = 0
  /\ sinceEnable = NothingPressed

(* ---------------------------------------------------------------------- *)
(* Actions                                                                 *)
(* ---------------------------------------------------------------------- *)

\* bookkeeping of an operation that handles no completed edit
Ran ==
  /\ handled' = NoEdit
  /\ calls' = {}
  /\ thrown' = Null
  /\ notified' = << >>
  /\ objectChanged' = << >>

\* bookkeeping of an operation other than toggleSpace
NoToggle ==
  /\ toggleRun' = 0
  /\ spaceAtRunStart' = getCurrentSpace'

\* bookkeeping of toggleSpace: runs are counted in windows of two calls
Toggled ==
  /\ toggleRun' = IF toggleRun = 2 THEN 1 ELSE toggleRun + 1
  /\ spaceAtRunStart' = IF toggleRun = 2 THEN getCurrentSpace ELSE spaceAtRunStart

Scene == << objects, instances, kind, originalSize, edits, applied >>

\* dispose() was called on SelectedInstances3D
Disposed == host = "sync" /\ ~selectedInstances3D.gizmoController

\* bookkeeping of an operation of SelectedInstances3D
Counted ==
  /\ Disposed => afterDispose < MaxAfterDispose
  /\ afterDispose' = IF Disposed THEN afterDispose + 1 ELSE afterDispose

updateSelection ==
  /\ host \in {"sync", "none"}
  /\ Counted
  /\ \E selected \in Selections, map \in Maps :
       /\ selectedInstances3D' =
            [selectedInstances3D EXCEPT !.selectedInstances = selected,
                                        !.instanceToObjectMap = map]
       /\ gizmo' = SelectedInstances3D_updateSelection(selectedInstances3D, gizmo,
                                                       selected, map)
  /\ UNCHANGED << Camera, host, Scene >>
  /\ Ran /\ NoToggle

setMode ==
  /\ host \in {"sync", "none"}
  /\ Counted
  /\ \E mode \in Modes :
       /\ selectedInstances3D' =
            [selectedInstances3D EXCEPT !.currentMode = mode]
       /\ gizmo' = IF selectedInstances3D.gizmoController
                     THEN Gizmo3DController_setMode(gizmo, mode) ELSE gizmo
  /\ UNCHANGED << Camera, host, Scene >>
  /\ Ran /\ NoToggle

toggleSpace ==
  /\ host \in {"sync", "none"}
  /\ Counted
  /\ gizmo' = IF selectedInstances3D.gizmoController
                THEN Gizmo3DController_toggleSpace(gizmo) ELSE gizmo
  /\ UNCHANGED << Camera, host, selectedInstances3D, Scene >>
  /\ Ran /\ Toggled

setEnabled ==
  /\ host \in {"sync", "none"}
  /\ Counted
  /\ \E enabled \in BOOLEAN :
       /\ selectedInstances3D' = [selectedInstances3D EXCEPT !.enabled = enabled]
       /\ gizmo' = SelectedInstances3D_setEnabled(selectedInstances3D', gizmo, enabled)
  /\ UNCHANGED << Camera, host, Scene >>
  /\ Ran /\ NoToggle

dispose ==
  /\ host \in {"sync", "none"}
  /\ Counted
  /\ gizmo' = IF selectedInstances3D.gizmoController
                THEN Gizmo3DController_dispose(gizmo) ELSE gizmo
  /\ selectedInstances3D' =
       [selectedInstances3D EXCEPT !.gizmoController = FALSE,
                                   !.instanceToObjectMap = << >>]
  /\ UNCHANGED << Camera, host, Scene >>
  /\ Ran /\ NoToggle

\* Gizmo3DController used on its own
GizmoSetObject ==
  /\ host = "direct"
  /\ \E object \in {"n1", "n4", Null} :
       gizmo' = Gizmo3DController_setObject(gizmo, object)
  /\ UNCHANGED << Camera, host, afterDispose, selectedInstances3D, Scene >>
  /\ Ran /\ NoToggle

GizmoSetMode ==
  /\ host = "direct"
  /\ \E mode \in Modes : gizmo' = Gizmo3DController_setMode(gizmo, mode)
  /\ UNCHANGED << Camera, host, afterDispose, selectedInstances3D, Scene >>
  /\ Ran /\ NoToggle

GizmoToggleSpace ==
  /\ host = "direct"
  /\ gizmo' = Gizmo3DController_toggleSpace(gizmo)
  /\ UNCHANGED << Camera, host, afterDispose, selectedInstances3D, Scene >>
  /\ Ran /\ Toggled

GizmoSetEnabled ==
  /\ host = "direct"
  /\ \E enabled \in BOOLEAN : gizmo' = Gizmo3DController_setEnabled(gizmo, enabled)
  /\ UNCHANGED << Camera, host, afterDispose, selectedInstances3D, Scene >>
  /\ Ran /\ NoToggle

GizmoDispose ==
  /\ host = "direct"
  /\ gizmo' = Gizmo3DController_dispose(gizmo)
  /\ UNCHANGED << Camera, host, afterDispose, selectedInstances3D, Scene >>
  /\ Ran /\ NoToggle

\* the widget: the pointer goes down on a handle of the attached object
PointerDown ==
  /\ ~gizmo.transformControls.disposed
  /\ gizmo.transformControls.enabled
  /\ gizmo.transformControls.object # Null
  /\ ~gizmo.transformControls.dragging
  /\ gizmo' = [gizmo EXCEPT !.transformControls.dragging = TRUE]
  /\ originalSize' = [i \in Instances |-> SizeOf(instances[i])]
  /\ UNCHANGED << Camera, host, afterDispose, selectedInstances3D, objects, instances, kind,
                  edits, applied >>
  /\ Ran /\ NoToggle

PointerUp ==
  /\ ~gizmo.transformControls.disposed
  /\ gizmo.transformControls.enabled
  /\ gizmo.transformControls.dragging
  /\ gizmo' = [gizmo EXCEPT !.transformControls.dragging = FALSE]
  /\ UNCHANGED << Camera, host, afterDispose, selectedInstances3D, Scene >>
  /\ Ran /\ NoToggle

\* the widget modifies the attached object directly while it is dragged
PointerMove ==
  /\ ~gizmo.transformControls.disposed
  /\ gizmo.transformControls.enabled
  /\ gizmo.transformControls.dragging
  /\ gizmo.transformControls.object # Null
  /\ edits < MaxEdits
  /\ edits' = edits + 1
  /\ LET o == gizmo.transformControls.object
         m == gizmo.transformControls.mode
     IN  \/ /\ m = "translate"
            /\ \E v \in DragPositions : objects' = [objects EXCEPT ![o].position = v]
         \/ /\ m = "rotate"
            /\ \E v \in DragRotations : objects' = [objects EXCEPT ![o].rotation = v]
         \/ /\ m = "scale"
            /\ \E v \in DragScales : objects' = [objects EXCEPT ![o].scale = v]
  /\ UNCHANGED << Camera, host, afterDispose, selectedInstances3D, gizmo, instances, kind,
                  originalSize, applied >>
  /\ Ran /\ NoToggle

\* the widget dispatches 'change': _onControlsChange runs
ControlsChange ==
  /\ "change" \in gizmo.transformControls.listeners
  /\ objects' = onControlsChange(gizmo, objects)
  /\ UNCHANGED << Camera, host, afterDispose, selectedInstances3D, gizmo, instances, kind,
                  originalSize, edits, applied >>
  /\ Ran /\ NoToggle

\* the widget dispatches 'objectChange' for the object it drags:
\* _onObjectChange runs, and through it the owner's onObjectChanged
ObjectChange ==
  /\ "objectChange" \in gizmo.transformControls.listeners
  /\ gizmo.transformControls.enabled
  /\ gizmo.transformControls.dragging
  /\ gizmo.transformControls.object # Null
  /\ applied < MaxApplied
  /\ IF gizmo.currentObject = Null
       THEN /\ objectChanged' = << >>
            /\ handled' = NoEdit /\ calls' = {} /\ thrown' = Null /\ notified' = << >>
            /\ UNCHANGED << objects, instances >>
       ELSE /\ objectChanged' = << <<gizmo.currentObject, gizmo.currentMode>> >>
            /\ IF host = "sync"
                 THEN LET r == onObjectChanged(gizmo.currentObject, gizmo.currentMode)
                      IN  /\ instances' = r.instances
                          /\ objects' = r.objects
                          /\ handled' = r.handled
                          /\ calls' = r.calls
                          /\ thrown' = r.thrown
                          /\ notified' = r.notified
                 ELSE /\ handled' = NoEdit /\ calls' = {} /\ thrown' = Null
                      /\ notified' = << >>
                      /\ UNCHANGED << objects, instances >>
  /\ applied' = IF handled' = NoEdit THEN applied ELSE applied + 1
  /\ UNCHANGED << Camera, host, afterDispose, selectedInstances3D, gizmo, kind, originalSize,
                  edits >>
  /\ NoToggle

\* the operations of both classes and the widget's pointer and 'change' events
Next ==
  \/ updateSelection
  \/ setMode
  \/ toggleSpace
  \/ setEnabled
  \/ dispose
  \/ GizmoSetObject
  \/ GizmoSetMode
  \/ GizmoToggleSpace
  \/ GizmoSetEnabled
  \/ GizmoDispose
  \/ PointerDown
  \/ PointerUp
  \/ ControlsChange

Spec == Init /\ [][Next]_vars

\* an editing session on SelectedInstances3D with a renderer, camera and scene:
\* selection, mode and enablement change while the widget drags the attached
\* object and dispatches 'change' and 'objectChange'
InitEdit == Init /\ host = "sync"

NextEdit ==
  \/ updateSelection
  \/ setMode
  \/ setEnabled
  \/ PointerDown
  \/ PointerUp
  \/ PointerMove
  \/ ControlsChange
  \/ ObjectChange

SpecEdit == InitEdit /\ [][NextEdit]_vars

(* ---------------------------------------------------------------------- *)
(* FreeCameraController                                                    *)
(*                                                                         *)
(* Numbers.  Angles and distances are integers in units of 0.01 / Grain    *)
(* (radians, world units): a pixel of orbit drag is 0.01 radian, a wheel   *)
(* unit 0.01 of distance, and every update() divides the difference to     *)
(* the target by ten, so Grain = 10 ^ MaxUpdates keeps every value exact.  *)
(* Math.PI is 3.14 in these units.  The pan target is a point with whole   *)
(* coordinates plus what panning (hundredths along the camera's right and  *)
(* up columns) and key movement (steps of _keyMoveSpeed in camera space)   *)
(* added to it.  The camera's position is kept as the point it was last    *)
(* placed around plus a spherical offset from it.                          *)
(* ---------------------------------------------------------------------- *)

Grain == 10 ^ MaxUpdates

\* n hundredths
Hundredth(n) == n * Grain

\* Math.PI, in hundredths of a radian
PiHundredths == 314

Pi == Hundredth(PiHundredths)

HalfPi == Pi \div 2

MinDistance == Hundredth(10)

MaxDistance == Hundredth(100000)

MinPolarAngle == 0

MaxPolarAngle == Pi

\* buttons of a mouse event: primary, auxiliary, secondary
Buttons == {0, 1, 2}

\* clientX, clientY of the mouse events
MousePositions == {<<0, 0>>, <<30, 40>>, <<0, 400>>}

\* deltaY of the wheel events
WheelDeltas == {0 - 2000, 100, 200000}

\* codes of the key events
KeyCodes == {"KeyW", "KeyS"}

\* positions the camera may have when the controller is constructed
CameraPositions == {Vec(0, 0, 10), Vec(0, 0, 0), Vec(0, 0, 2000), Vec(0, 5, 0)}

\* the points the host may aim the camera at
TargetPoints == {Vec(0, 0, 0), Vec(0, 0, 4)}

\* the optional distance argument of focusOn: absent, or one distance
FocusDistances == {<< >>, <<Hundredth(500)>>}

\* a pan target: a point, and what panning and key movement added to it
PanTarget(point) == [point |-> point, right |-> 0, up |-> 0, move |-> Vec(0, 0, 0)]

IsPoint(t) == t = PanTarget(t.point)

Sub(a, b) == Vec(a.x - b.x, a.y - b.y, a.z - b.z)

Add(a, b) == Vec(a.x + b.x, a.y + b.y, a.z + b.z)

\* a vector along one axis, or the zero vector
AxisAligned(v) == Cardinality({c \in {"x", "y", "z"} : v[c] # 0}) <= 1

\* THREE.Vector3.length() of a vector along one axis, in hundredths / Grain
Length(v) == Hundredth(100 * (Abs(v.x) + Abs(v.y) + Abs(v.z)))

Spherical(radius, theta, phi) == [radius |-> radius, theta |-> theta, phi |-> phi]

\* THREE.Spherical.setFromVector3 for a vector along one axis:
\* theta = atan2(x, z), phi = acos(y / radius), both 0 for the zero vector
Spherical_setFromVector3(v) ==
  Spherical(Length(v),
            CASE v.z < 0 -> Pi [] v.x > 0 -> HalfPi [] v.x < 0 -> 0 - HalfPi
              [] OTHER -> 0,
            CASE v.y > 0 -> 0 [] v.y < 0 -> Pi [] v.x # 0 \/ v.z # 0 -> HalfPi
              [] OTHER -> 0)

\* an angle brought into (-pi, pi], as atan2 returns it
WrapAngle(a) == Pi - ((Pi - a) % (2 * Pi))

\* setFromVector3 of the vector that setFromSpherical makes of s
\* (s.radius >= 0 and 0 <= s.phi <= pi)
Spherical_ofSpherical(s) ==
  IF s.radius = 0 THEN Spherical(0, 0, 0)
  ELSE IF s.phi = 0 \/ s.phi = Pi THEN Spherical(s.radius, 0, s.phi)
  ELSE Spherical(s.radius, WrapAngle(s.theta), s.phi)

\* whether the model can compute camera.position - target exactly
OffsetKnown(position, target) ==
  \/ position.base = target
  \/ /\ position.offset.radius = 0
     /\ IsPoint(position.base)
     /\ IsPoint(target)
     /\ AxisAligned(Sub(position.base.point, target.point))

\* the spherical coordinates of camera.position - target
SphericalOfOffset(position, target) ==
  IF position.base = target
    THEN Spherical_ofSpherical(position.offset)
    ELSE Spherical_setFromVector3(Sub(position.base.point, target.point))

FreeCameraController_updateSphericalFromCamera(fc) ==
  LET spherical == SphericalOfOffset(fc.cameraPosition, fc.target)
  IN  [fc EXCEPT !.spherical = spherical,
                 !.sphericalTarget = spherical,
                 !.distance = spherical.radius,
                 !.targetDistance = spherical.radius]

\* the controller as its constructor leaves it, for a camera at cameraPoint
FreeCameraController_new(cameraPoint, targetPoint, enableKeys) ==
  FreeCameraController_updateSphericalFromCamera(
    [ isMouseDown |-> FALSE, mouseButton |-> 0, lastMousePosition |-> <<0, 0>>,
      spherical |-> Spherical(Hundredth(100), 0, 0),
      sphericalTarget |-> Spherical(Hundredth(100), 0, 0),
      distance |-> Hundredth(1000), targetDistance |-> Hundredth(1000),
      keys |-> {}, enableKeys |-> enableKeys, isEnabled |-> FALSE,
      target |-> PanTarget(targetPoint),
      cameraPosition |-> [base |-> PanTarget(cameraPoint), offset |-> Spherical(0, 0, 0)],
      listeners |-> {} ])

MouseEvent(button, position) ==
  [button |-> button, clientX |-> position[1], clientY |-> position[2]]

FreeCameraController_onMouseDown(fc, event) ==
  IF ~fc.isEnabled THEN fc
  ELSE [fc EXCEPT !.isMouseDown = TRUE,
                  !.mouseButton = event.button,
                  !.lastMousePosition = <<event.clientX, event.clientY>>]

Min(a, b) == IF a < b THEN a ELSE b

Max(a, b) == IF a > b THEN a ELSE b

ClampPolar_None(phi) == phi

ClampPolar(phi) == Max(MinPolarAngle, Min(MaxPolarAngle, phi))

ClampDistance(distance) == Max(MinDistance, Min(MaxDistance, distance))

\* primary button: orbit
Orbit(fc, deltaX, deltaY) ==
  [fc EXCEPT !.sphericalTarget.theta = @ - Hundredth(deltaX),
             !.sphericalTarget.phi = ClampPolar(@ + Hundredth(deltaY))]

FreeCameraController_pan(fc, deltaX, deltaY) ==
  [fc EXCEPT !.target.right = @ - deltaX,
             !.target.up = @ + deltaY]

Zoom_Current(fc, deltaY) ==
  [fc EXCEPT !.distance = ClampDistance(@ + Hundredth(5 * deltaY))]

\* auxiliary button: zoom
Zoom(fc, deltaY) ==
  [fc EXCEPT !.targetDistance = ClampDistance(@ + Hundredth(5 * deltaY))]

FreeCameraController_onMouseMove(fc, event) ==
  IF ~fc.isEnabled \/ ~fc.isMouseDown THEN fc
  ELSE LET deltaX == event.clientX - fc.lastMousePosition[1]
           deltaY == event.clientY - fc.lastMousePosition[2]
           moved == CASE fc.mouseButton = 0 -> Orbit(fc, deltaX, deltaY)
                      [] fc.mouseButton = 2 -> FreeCameraController_pan(fc, deltaX, deltaY)
                      [] fc.mouseButton = 1 -> Zoom(fc, deltaY)
                      [] OTHER -> fc
       IN  [moved EXCEPT !.lastMousePosition = <<event.clientX, event.clientY>>]

FreeCameraController_onMouseUp(fc) ==
  IF ~fc.isEnabled THEN fc ELSE [fc EXCEPT !.isMouseDown = FALSE]

FreeCameraController_onWheel(fc, deltaY) ==
  IF ~fc.isEnabled THEN fc
  ELSE [fc EXCEPT !.targetDistance = ClampDistance(@ + Hundredth(deltaY))]

FreeCameraController_onKeyDown(fc, code) ==
  IF ~fc.isEnabled \/ ~fc.enableKeys THEN fc ELSE [fc EXCEPT !.keys = @ \cup {code}]

FreeCameraController_onKeyUp(fc, code) ==
  IF ~fc.isEnabled \/ ~fc.enableKeys THEN fc ELSE [fc EXCEPT !.keys = @ \ {code}]

\* 1 if the key is held, else 0
Held(fc, code) == IF code \in fc.keys THEN 1 ELSE 0

\* the movement of the held keys, in steps of _keyMoveSpeed
MoveVector(fc) ==
  Vec(Held(fc, "KeyD") - Held(fc, "KeyA"),
      Held(fc, "KeyE") - Held(fc, "KeyQ"),
      Held(fc, "KeyS") - Held(fc, "KeyW"))

FreeCameraController_updateKeyboardMovement(fc) ==
  IF ~fc.enableKeys \/ MoveVector(fc) = Vec(0, 0, 0) THEN fc
  ELSE [fc EXCEPT !.target.move = Add(@, MoveVector(fc))]

\* the listeners enable() registers
Listeners(fc) ==
  {"mousedown", "mousemove", "mouseup", "wheel", "contextmenu"}
    \cup (IF fc.enableKeys THEN {"keydown", "keyup"} ELSE {})

FreeCameraController_enable_NoFlag(fc) ==
  IF fc.isEnabled THEN fc
  ELSE [fc EXCEPT !.listeners = @ \cup Listeners(fc)]

FreeCameraController_enable(fc) ==
  IF fc.isEnabled THEN fc
  ELSE [fc EXCEPT !.isEnabled = TRUE,
                  !.listeners = @ \cup Listeners(fc)]

FreeCameraController_disable_KeepsListeners(fc) ==
  IF ~fc.isEnabled THEN fc
  ELSE [fc EXCEPT !.isEnabled = FALSE]

FreeCameraController_disable(fc) ==
  IF ~fc.isEnabled THEN fc
  ELSE [fc EXCEPT !.isEnabled = FALSE,
                  !.listeners = @ \ Listeners(fc)]

Damped_Snap(current, target) == target

\* current += (target - current) * dampingFactor, the factor being 0.1
Damped(current, target) == current + (target - current) \div 10

FreeCameraController_update(fc) ==
  IF ~fc.isEnabled THEN fc
  ELSE LET moved == FreeCameraController_updateKeyboardMovement(fc)
           distance == Damped(fc.distance, fc.targetDistance)
           spherical ==
             Spherical(distance,
                       Damped(fc.spherical.theta, fc.sphericalTarget.theta),
                       Damped(fc.spherical.phi, fc.sphericalTarget.phi))
       IN  [moved EXCEPT !.spherical = spherical,
                         !.distance = distance,
                         !.cameraPosition = [base |-> moved.target, offset |-> spherical]]

FreeCameraController_setTarget(fc, point) ==
  [fc EXCEPT !.target = PanTarget(point)]

\* position is a pan target here, so that the camera can be focused on the
\* point it is placed around
FreeCameraController_focusOn(fc, position, distance) ==
  LET aimed == [fc EXCEPT !.target = position]
      set == IF distance # << >>
               THEN [aimed EXCEPT !.targetDistance = distance[1],
                                  !.distance = distance[1]]
               ELSE aimed
  IN  FreeCameraController_updateSphericalFromCamera(set)

FreeCameraController_isEnabled(fc) == fc.isEnabled

FreeCameraController_dispose(fc) == FreeCameraController_disable(fc)

(* ---------------------------------------------------------------------- *)
(* Actions of the camera controller                                        *)
(* ---------------------------------------------------------------------- *)

\* the gizmo's variables, which no camera operation touches
Gizmo == << host, selectedInstances3D, gizmo, objects, instances, kind, originalSize,
            edits, applied, afterDispose, handled, calls, thrown, notified,
            objectChanged, toggleRun, spaceAtRunStart >>

\* bookkeeping of a camera input or operation
Input ==
  /\ inputs < MaxInputs
  /\ inputs' = inputs + 1
  /\ UNCHANGED << updates, Gizmo >>

\* the camera controller on its own ("camera"), and the same with a record
\* kept of what was pressed since it was last enabled ("cameraTracked")
CameraHosts == {"camera", "cameraTracked"}

\* bookkeeping of what was pressed since enable(), where a record is kept
Track(pressed) ==
  sinceEnable' = IF host = "cameraTracked" THEN pressed ELSE sinceEnable

CameraEnable ==
  /\ host \in CameraHosts
  /\ freeCamera' = FreeCameraController_enable(freeCamera)
  /\ Track(IF freeCamera.isEnabled THEN sinceEnable ELSE NothingPressed)
  /\ UNCHANGED << inputs, updates, Gizmo >>

CameraDisable ==
  /\ host \in CameraHosts
  /\ freeCamera' = FreeCameraController_disable(freeCamera)
  /\ Track(sinceEnable)
  /\ UNCHANGED << inputs, updates, Gizmo >>

CameraDispose ==
  /\ host \in CameraHosts
  /\ freeCamera' = FreeCameraController_dispose(freeCamera)
  /\ Track(sinceEnable)
  /\ UNCHANGED << inputs, updates, Gizmo >>

\* the render loop calls update()
CameraUpdate ==
  /\ host \in CameraHosts
  /\ freeCamera.isEnabled => updates < MaxUpdates
  /\ freeCamera' = FreeCameraController_update(freeCamera)
  /\ updates' = IF freeCamera.isEnabled THEN updates + 1 ELSE updates
  /\ Track(sinceEnable)
  /\ UNCHANGED << inputs, Gizmo >>

CameraSetTarget ==
  /\ host \in CameraHosts
  /\ \E point \in TargetPoints :
       freeCamera' = FreeCameraController_setTarget(freeCamera, point)
  /\ Track(sinceEnable)
  /\ Input

CameraFocusOn ==
  /\ host \in CameraHosts
  /\ \E position \in {PanTarget(point) : point \in TargetPoints}
                       \cup {freeCamera.target, freeCamera.cameraPosition.base},
        distance \in FocusDistances :
       /\ OffsetKnown(freeCamera.cameraPosition, position)
       /\ freeCamera' = FreeCameraController_focusOn(freeCamera, position, distance)
  /\ Track(sinceEnable)
  /\ Input

\* the browser dispatches an event to the listener registered for it
MouseDown ==
  /\ host \in CameraHosts
  /\ "mousedown" \in freeCamera.listeners
  /\ \E button \in Buttons, position \in MousePositions :
       freeCamera' = FreeCameraController_onMouseDown(freeCamera,
                                                      MouseEvent(button, position))
  /\ Track([sinceEnable EXCEPT !.mouseDown = TRUE])
  /\ Input

MouseMove ==
  /\ host \in CameraHosts
  /\ "mousemove" \in freeCamera.listeners
  /\ \E position \in MousePositions :
       freeCamera' = FreeCameraController_onMouseMove(freeCamera,
                                                      MouseEvent(0, position))
  /\ Track(sinceEnable)
  /\ Input

MouseUp ==
  /\ host \in CameraHosts
  /\ "mouseup" \in freeCamera.listeners
  /\ freeCamera' = FreeCameraController_onMouseUp(freeCamera)
  /\ Track([sinceEnable EXCEPT !.mouseDown = FALSE])
  /\ Input

Wheel ==
  /\ host \in CameraHosts
  /\ "wheel" \in freeCamera.listeners
  /\ \E deltaY \in WheelDeltas :
       freeCamera' = FreeCameraController_onWheel(freeCamera, deltaY)
  /\ Track(sinceEnable)
  /\ Input

KeyDown ==
  /\ host \in CameraHosts
  /\ "keydown" \in freeCamera.listeners
  /\ \E code \in KeyCodes :
       /\ freeCamera' = FreeCameraController_onKeyDown(freeCamera, code)
       /\ Track([sinceEnable EXCEPT !.keys = @ \cup {code}])
  /\ Input

KeyUp ==
  /\ host \in CameraHosts
  /\ "keyup" \in freeCamera.listeners
  /\ \E code \in KeyCodes :
       /\ freeCamera' = FreeCameraController_onKeyUp(freeCamera, code)
       /\ Track([sinceEnable EXCEPT !.keys = @ \ {code}])
  /\ Input

\* a FreeCameraController constructed for a camera at one of CameraPositions,
\* without a target (the target is then new THREE.Vector3(), the origin)
InitCamera ==
  /\ host = "camera"
  /\ \E cameraPoint \in CameraPositions, enableKeys \in BOOLEAN :
       freeCamera = FreeCameraController_new(cameraPoint, Vec(0, 0, 0), enableKeys)
  /\ updates = 0
  /\ inputs = 0
  /\ sinceEnable = NothingPressed
  /\ selectedInstances3D =
       [ selectedInstances |-> << >>, instanceToObjectMap |-> << >>,
         currentMode |-> "translate", enabled |-> FALSE, gizmoController |-> FALSE ]
  /\ gizmo = Gizmo3DController_none
  /\ objects = [n \in Nodes |-> InitialObject]
  /\ instances = InitialInstances
  /\ kind = [i \in Instances |-> Kind3D]
  /\ originalSize = [i \in Instances |-> SizeOf(InitialInstances[i])]
  /\ edits = 0
  /\ applied = 0
  /\ afterDispose = 0
  /\ handled = NoEdit
  /\ calls = {}
  /\ thrown = Null
  /\ notified = << >>
  /\ objectChanged = << >>
  /\ toggleRun = 0
  /\ spaceAtRunStart = "local"

NextCamera ==
  \/ CameraEnable
  \/ CameraDisable
  \/ CameraDispose
  \/ CameraUpdate
  \/ CameraSetTarget
  \/ CameraFocusOn
  \/ MouseDown
  \/ MouseMove
  \/ MouseUp
  \/ Wheel
  \/ KeyDown
  \/ KeyUp

SpecCamera == InitCamera /\ [][NextCamera]_vars

\* the same controller with a record kept of what was pressed since enable(),
\* through disable/enable cycles in the middle of drags and key presses
InitCameraTracked ==
  /\ host = "cameraTracked"
  /\ \E cameraPoint \in CameraPositions, enableKeys \in BOOLEAN :
       freeCamera = FreeCameraController_new(cameraPoint, Vec(0, 0, 0), enableKeys)
  /\ updates = 0
  /\ inputs = 0
  /\ sinceEnable = NothingPressed
  /\ selectedInstances3D =
       [ selectedInstances |-> << >>, instanceToObjectMap |-> << >>,
         currentMode |-> "translate", enabled |-> FALSE, gizmoController |-> FALSE ]
  /\ gizmo = Gizmo3DController_none
  /\ objects = [n \in Nodes |-> InitialObject]
  /\ instances = InitialInstances
  /\ kind = [i \in Instances |-> Kind3D]
  /\ originalSize = [i \in Instances |-> SizeOf(InitialInstances[i])]
  /\ edits = 0
  /\ applied = 0
  /\ afterDispose = 0
  /\ handled = NoEdit
  /\ calls = {}
  /\ thrown = Null
  /\ notified = << >>
  /\ objectChanged = << >>
  /\ toggleRun = 0
  /\ spaceAtRunStart = "local"

NextCameraTracked ==
  \/ CameraEnable
  \/ CameraDisable
  \/ CameraUpdate
  \/ MouseDown
  \/ MouseMove
  \/ MouseUp
  \/ KeyDown
  \/ KeyUp

SpecCameraTracked == InitCameraTracked /\ [][NextCameraTracked]_vars

(* ---------------------------------------------------------------------- *)
(* Properties                                                              *)
(* ---------------------------------------------------------------------- *)

\* the object the widget is attached to
Attached == gizmo.transformControls.object

\* SelectedInstances3D has a live gizmo controller
Live == host = "sync" /\ selectedInstances3D.gizmoController

\* the node the map gives to the single selected instance (Null if there is none)
SelectedNode ==
  IF Len(selectedInstances3D.selectedInstances) = 1
    THEN MapGet(selectedInstances3D.instanceToObjectMap,
                selectedInstances3D.selectedInstances[1])
    ELSE Null

\* C1: while the gizmo controller is live, whenever the selection last passed to
\* updateSelection is empty or holds two or more instances, the widget is
\* attached to nothing.
C1_NonSingletonDetached ==
  (Live /\ Len(selectedInstances3D.selectedInstances) # 1) => Attached = Null

\* a selection of two instances was passed while the gizmo is enabled
C1_Witness ==
  /\ Live
  /\ selectedInstances3D.enabled
  /\ Len(selectedInstances3D.selectedInstances) = 2
  /\ selectedInstances3D.instanceToObjectMap # << >>
  /\ Attached = Null

\* C2: while the gizmo controller is live and enabled and the selection is one
\* instance with a node in the map, the widget is attached to that node,
\* whichever of setEnabled(true) and updateSelection came last.
C2_SingletonAttached ==
  (Live /\ selectedInstances3D.enabled /\ SelectedNode # Null)
    => Attached = SelectedNode

\* the single selected instance i2 is attached through its node n4
C2_Witness ==
  /\ Live
  /\ selectedInstances3D.enabled
  /\ selectedInstances3D.selectedInstances = <<"i2">>
  /\ Attached = "n4"

\* C3: whenever the gizmo is disabled the widget is attached to nothing, for
\* Gizmo3DController on its own and under SelectedInstances3D.
C3_DisabledDetached ==
  /\ (host # "none" /\ ~gizmo.isEnabled) => Attached = Null
  /\ (Live /\ ~selectedInstances3D.enabled) => Attached = Null

\* setObject(node) ran on a disabled Gizmo3DController: the node is recorded, not attached
C3_Witness ==
  /\ host = "direct"
  /\ ~gizmo.isEnabled
  /\ gizmo.currentObject = "n1"
  /\ Attached = Null

\* C4: where a widget exists, the space starts as 'local', one toggleSpace()
\* call gives the other space and two calls in a row give back the space they
\* started from.
C4_ToggleSpaceInvolution ==
  /\ getCurrentSpace = "local"
  /\ [](/\ getCurrentSpace \in Spaces
        /\ (host = "direct" \/ Live) =>
             /\ toggleRun = 1 => getCurrentSpace # spaceAtRunStart
             /\ toggleRun = 2 => getCurrentSpace = spaceAtRunStart)

\* two toggleSpace() calls in a row that began, and ended, in 'world'
C4_Witness ==
  /\ Live
  /\ toggleRun = 2
  /\ spaceAtRunStart = "world"
  /\ getCurrentSpace = "world"

\* the instance the last completed edit was applied to, and the pending-edit
\* annotation it was applied from (the handler leaves the snapshot in place)
EditedInstance == handled.instance

Edited == instances[EditedInstance]

EditedKind == kind[EditedInstance]

Snapshot == objects[gizmo.currentObject].userData

\* C5: a completed translate edit leaves X = position.x - width / 2 and
\* Y = position.y - height / 2, and for an instance with a Z position
\* Z = position.z - depth / 2, the depth being 0 for an instance without one
\* (instance positions are in half units).
C5_TranslateCentered ==
  handled.transformType = "translate" =>
    /\ "setX" \in EditedKind =>
         Edited.X = 2 * Snapshot.position.x - Edited.W
    /\ "setY" \in EditedKind =>
         Edited.Y = 2 * Snapshot.position.y - Edited.H
    /\ "setZ" \in EditedKind =>
         Edited.Z = 2 * Snapshot.position.z
                      - (IF "getDepth" \in EditedKind THEN Edited.D ELSE 0)

\* C6: a completed scale edit leaves width, height and depth at the dimension
\* the instance had when the scale edit began times the absolute value of the
\* widget's scale factor on that axis, however many completed-edit events
\* arrive during the edit.
C6_ScaleFromOriginal ==
  handled.transformType = "scale" =>
    /\ "setWidth" \in EditedKind =>
         Edited.W = originalSize[EditedInstance].W * Abs(Snapshot.scale.x)
    /\ "setHeight" \in EditedKind =>
         Edited.H = originalSize[EditedInstance].H * Abs(Snapshot.scale.y)
    /\ "setDepth" \in EditedKind =>
         Edited.D = originalSize[EditedInstance].D * Abs(Snapshot.scale.z)

\* C7: a completed rotate edit leaves the angle at the widget's Z rotation in
\* degrees (a rotation of PiUnits units, that is pi radians, gives 180), and
\* calls setAngle, setRotationX and setRotationY, with the X and Y rotations
\* in degrees, exactly when the instance has the setter.
C7_RotateDegrees ==
  handled.transformType = "rotate" =>
    /\ \A setter \in {"setAngle", "setRotationX", "setRotationY"} :
         setter \in calls <=> setter \in EditedKind
    /\ calls \subseteq {"setAngle", "setRotationX", "setRotationY"}
    /\ "setAngle" \in EditedKind =>
         Edited.A * PiUnits = Snapshot.rotation.z * 180
    /\ "setRotationX" \in EditedKind =>
         Edited.RX * PiUnits = Snapshot.rotation.x * 180
    /\ "setRotationY" \in EditedKind =>
         Edited.RY * PiUnits = Snapshot.rotation.y * 180

\* a half turn about Z was applied to an instance that has setAngle but neither
\* setRotationX nor setRotationY
C7_Witness ==
  /\ handled = [instance |-> "i1", transformType |-> "rotate"]
  /\ kind["i1"] = Kind2D
  /\ Snapshot.rotation.z = PiUnits
  /\ instances["i1"].A = 180
  /\ instances["i1"].RX = 0
  /\ calls = {"setAngle"}

\* C8: handling a completed edit never invokes a setter the instance lacks.
C8_SettersPresenceChecked ==
  thrown \notin Setters

\* C9: a completed edit found pending is applied, reported once to
\* onInstanceTransformed with the instance and the gizmo's current mode, and
\* its needsUpdate flag is left false; a completed edit that finds nothing
\* pending calls no setter and reports nothing.
C9_ConsumedExactlyOnce ==
  /\ handled # NoEdit =>
       /\ notified = << <<EditedInstance, gizmo.currentMode>> >>
       /\ ~Snapshot.needsUpdate
  /\ handled = NoEdit => (calls = {} /\ notified = << >>)

\* C10 as stated: without a renderer, camera or scene the component stays
\* unavailable, raises no error, reports no transform, and getCurrentMode,
\* getCurrentSpace and isDragging keep the values they had after construction.
C10_AllNoOps ==
  host = "none" =>
    /\ ~isAvailable
    /\ thrown = Null
    /\ notified = << >>
    /\ getCurrentMode = "translate"
    /\ getCurrentSpace = "local"
    /\ ~isDragging

\* C10 amended: as stated, except that getCurrentMode changes in a setMode(m)
\* call, and only there, to m; and no operation touches a widget.
C10_NoOpsButMode ==
  [][host = "none" =>
       /\ ~isAvailable'
       /\ thrown' = Null
       /\ notified' = << >>
       /\ getCurrentSpace' = getCurrentSpace
       /\ isDragging' = isDragging
       /\ gizmo' = gizmo
       /\ getCurrentMode' # getCurrentMode => setMode]_vars

\* without a renderer: a mode was set, the component enabled and one instance selected
C10_Witness ==
  /\ host = "none"
  /\ getCurrentMode = "rotate"
  /\ selectedInstances3D.enabled
  /\ Len(selectedInstances3D.selectedInstances) = 1
  /\ gizmo = Gizmo3DController_none

\* C11: the instance-to-node map is the caller's object, which the component
\* holds by reference; its entries change in no operation.  The only step in
\* which the map the component holds differs afterwards is an updateSelection
\* call, which makes the component hold another map and changes none.
C11_MapOnlyRead ==
  [][selectedInstances3D'.instanceToObjectMap # selectedInstances3D.instanceToObjectMap
       => updateSelection]_vars

\* what is left between a component of the current state and its target
Remaining(fc) ==
  [ theta |-> fc.sphericalTarget.theta - fc.spherical.theta,
    phi |-> fc.sphericalTarget.phi - fc.spherical.phi,
    distance |-> fc.targetDistance - fc.distance ]

\* C12: an update() call on an enabled controller leaves the targets alone and
\* moves theta, phi and the distance toward their targets by a tenth of the
\* difference: what remains is nine tenths of what remained before, so it
\* keeps its sign and shrinks geometrically.
C12_DampedTowardTarget ==
  [][CameraUpdate /\ freeCamera.isEnabled =>
       /\ freeCamera'.sphericalTarget = freeCamera.sphericalTarget
       /\ freeCamera'.targetDistance = freeCamera.targetDistance
       /\ freeCamera'.spherical.radius = freeCamera'.distance
       /\ \A c \in {"theta", "phi", "distance"} :
            10 * Remaining(freeCamera')[c] = 9 * Remaining(freeCamera)[c]]_vars

\* a wheel event asked for one unit of distance more and an orbit drag for
\* 0.4 radian more of polar angle; two updates later 0.81 of each remains
C12_Witness ==
  /\ host = "camera"
  /\ updates = 2
  /\ Remaining(freeCamera).distance * 100 = Hundredth(100) * 81
  /\ Remaining(freeCamera).phi * 100 = Hundredth(40) * 81

\* C13: while the controller is disabled none of the listeners enable()
\* registers is registered, and neither update() nor any of the handlers,
\* were an event still delivered to it, changes the controller or the camera.
C13_DisabledIgnoresInput ==
  (host = "camera" /\ ~freeCamera.isEnabled) =>
    /\ freeCamera.listeners = {}
    /\ FreeCameraController_update(freeCamera) = freeCamera
    /\ FreeCameraController_onMouseUp(freeCamera) = freeCamera
    /\ \A button \in Buttons, position \in MousePositions :
         /\ FreeCameraController_onMouseDown(freeCamera, MouseEvent(button, position))
              = freeCamera
         /\ FreeCameraController_onMouseMove(freeCamera, MouseEvent(button, position))
              = freeCamera
    /\ \A deltaY \in WheelDeltas :
         FreeCameraController_onWheel(freeCamera, deltaY) = freeCamera
    /\ \A code \in KeyCodes :
         /\ FreeCameraController_onKeyDown(freeCamera, code) = freeCamera
         /\ FreeCameraController_onKeyUp(freeCamera, code) = freeCamera

\* disabled in the middle of a drag, with a key held and a zoom still pending
C13_Witness ==
  /\ host = "camera"
  /\ ~freeCamera.isEnabled
  /\ freeCamera.isMouseDown
  /\ freeCamera.keys # {}
  /\ Remaining(freeCamera).distance # 0

\* C14: enable() on an enabled controller and disable() on a disabled one
\* change nothing, dispose() leaves the controller disabled, and the listeners
\* registered are those of enable(), each once, when isEnabled() is true and
\* none when it is false (the key listeners are among those of enable() only
\* for a controller constructed with enableKeys).
C14_EnableDisableIdempotent ==
  host = "camera" =>
    /\ freeCamera.listeners =
         IF FreeCameraController_isEnabled(freeCamera) THEN Listeners(freeCamera) ELSE {}
    /\ FreeCameraController_isEnabled(freeCamera) =>
         FreeCameraController_enable(freeCamera) = freeCamera
    /\ ~FreeCameraController_isEnabled(freeCamera) =>
         FreeCameraController_disable(freeCamera) = freeCamera
    /\ FreeCameraController_enable(FreeCameraController_enable(freeCamera))
         = FreeCameraController_enable(freeCamera)
    /\ FreeCameraController_disable(FreeCameraController_disable(freeCamera))
         = FreeCameraController_disable(freeCamera)
    /\ ~FreeCameraController_isEnabled(FreeCameraController_dispose(freeCamera))
    /\ FreeCameraController_dispose(freeCamera).listeners = {}

\* an enabled controller with its key listeners, after some input
C14_Witness ==
  /\ host = "camera"
  /\ FreeCameraController_isEnabled(freeCamera)
  /\ freeCamera.listeners = {"mousedown", "mousemove", "mouseup", "wheel",
                             "contextmenu", "keydown", "keyup"}
  /\ inputs = MaxInputs

\* C15: the target polar angle and the current polar angle are always within
\* [minPolarAngle, maxPolarAngle].
C15_PolarAngleInRange ==
  host = "camera" =>
    /\ MinPolarAngle <= freeCamera.sphericalTarget.phi
    /\ freeCamera.sphericalTarget.phi <= MaxPolarAngle
    /\ MinPolarAngle <= freeCamera.spherical.phi
    /\ freeCamera.spherical.phi <= MaxPolarAngle

\* an orbit drag of 400 pixels downwards from the equator was clamped at the
\* pole, and an update has moved the camera part of the way there
C15_Witness ==
  /\ host = "camera"
  /\ freeCamera.lastMousePosition = <<0, 400>>
  /\ freeCamera.sphericalTarget.phi = MaxPolarAngle
  /\ freeCamera.spherical.phi > HalfPi
  /\ freeCamera.spherical.phi < MaxPolarAngle

\* C16: the target distance and the current distance are always within
\* [minDistance, maxDistance].
C16_DistanceInRange ==
  host = "camera" =>
    /\ MinDistance <= freeCamera.targetDistance
    /\ freeCamera.targetDistance <= MaxDistance
    /\ MinDistance <= freeCamera.distance
    /\ freeCamera.distance <= MaxDistance

\* C17: a mouse or wheel handler changes neither the current spherical
\* angles, nor the current distance, nor the camera's position; the target
\* angles change only in a drag with button 0 latched, the pan target only in
\* a drag with button 2 latched, and the target distance only in a drag with
\* button 1 latched or in a wheel event.
C17_MouseMovesTargetsOnly ==
  [][(MouseDown \/ MouseMove \/ MouseUp \/ Wheel) =>
       /\ freeCamera'.spherical = freeCamera.spherical
       /\ freeCamera'.distance = freeCamera.distance
       /\ freeCamera'.cameraPosition = freeCamera.cameraPosition
       /\ freeCamera'.sphericalTarget # freeCamera.sphericalTarget =>
            /\ MouseMove /\ freeCamera.isMouseDown /\ freeCamera.mouseButton = 0
            /\ freeCamera'.sphericalTarget.radius = freeCamera.sphericalTarget.radius
       /\ freeCamera'.target # freeCamera.target =>
            MouseMove /\ freeCamera.isMouseDown /\ freeCamera.mouseButton = 2
       /\ freeCamera'.targetDistance # freeCamera.targetDistance =>
            \/ MouseMove /\ freeCamera.isMouseDown /\ freeCamera.mouseButton = 1
            \/ Wheel]_vars

\* a drag with the secondary button moved the pan target and nothing else
C17_Witness ==
  /\ host = "camera"
  /\ freeCamera.mouseButton = 2
  /\ freeCamera.target.right = 0 - 30
  /\ freeCamera.target.up = 40
  /\ updates = 0
  /\ freeCamera.sphericalTarget = freeCamera.spherical
  /\ freeCamera.targetDistance = freeCamera.distance

\* the mode, the space, the enabled flags and the attachment of the gizmo
GizmoMode ==
  << selectedInstances3D.currentMode, gizmo.currentMode, gizmo.transformControls.mode >>

GizmoSpace == << getCurrentSpace, gizmo.transformControls.space >>

GizmoEnabled ==
  << selectedInstances3D.enabled, gizmo.isEnabled, gizmo.transformControls.enabled >>

\* C18: setMode changes the mode, to the same value wherever it is kept, and
\* leaves space, enabled flags and attached object unchanged; toggleSpace
\* leaves mode, enabled flags and attached object unchanged; setEnabled,
\* setObject and updateSelection leave mode and space unchanged.
C18_ModeSpaceIndependent ==
  [][/\ (setMode \/ GizmoSetMode) =>
          /\ GizmoSpace' = GizmoSpace
          /\ GizmoEnabled' = GizmoEnabled
          /\ Attached' = Attached
          /\ gizmo'.currentObject = gizmo.currentObject
          /\ (Live \/ host = "direct") =>
               gizmo'.transformControls.mode = gizmo'.currentMode
          /\ (Live /\ host = "sync") => gizmo'.currentMode = getCurrentMode'
     /\ (toggleSpace \/ GizmoToggleSpace) =>
          /\ GizmoMode' = GizmoMode
          /\ GizmoEnabled' = GizmoEnabled
          /\ Attached' = Attached
          /\ gizmo'.currentObject = gizmo.currentObject
     /\ (setEnabled \/ GizmoSetEnabled \/ updateSelection \/ GizmoSetObject) =>
          /\ GizmoMode' = GizmoMode
          /\ GizmoSpace' = GizmoSpace]_vars

\* a disabled gizmo, nothing attached, in scale mode and world space
C18_Witness ==
  /\ Live
  /\ ~gizmo.isEnabled
  /\ Attached = Null
  /\ gizmo.currentMode = "scale"
  /\ gizmo.transformControls.mode = "scale"
  /\ gizmo.transformControls.space = "world"

\* C19: a completed edit is applied to, and reported for, the single selected
\* instance, whose mapped node is the one the gizmo is attached to.
C19_EditsSelectedInstance ==
  handled # NoEdit =>
    /\ Len(selectedInstances3D.selectedInstances) = 1
    /\ SelectedNode = Attached
    /\ EditedInstance = selectedInstances3D.selectedInstances[1]
    /\ \A n \in 1..Len(notified) :
         notified[n][1] = selectedInstances3D.selectedInstances[1]

\* C20: once the gizmo controller is disposed neither of its listeners is
\* registered with the widget, so that no widget event reaches it; no later
\* step writes a pending-edit annotation, changes an instance, calls a setter
\* or invokes onObjectChanged or onInstanceTransformed; and on
\* SelectedInstances3D isAvailable() is false and updateSelection, setMode,
\* toggleSpace and setEnabled leave the widget as it is.
C20_DisposedIsSilent ==
  [][gizmo.transformControls.disposed =>
       /\ gizmo.transformControls.listeners = {}
       /\ gizmo'.transformControls.listeners = {}
       /\ objects' = objects
       /\ instances' = instances
       /\ calls' = {}
       /\ notified' = << >>
       /\ objectChanged' = << >>
       /\ host = "sync" =>
            /\ ~isAvailable
            /\ ~isAvailable'
            /\ gizmo' = gizmo]_vars

\* SelectedInstances3D was disposed while its widget was attached to a node
\* with a pending edit, and an operation was called on it afterwards
C20_Witness ==
  /\ host = "sync"
  /\ gizmo.transformControls.disposed
  /\ afterDispose = 1
  /\ Attached = "n1"
  /\ objects["n1"].userData.needsUpdate
  /\ selectedInstances3D.enabled

\* the points the model can focus the camera on in the current state
FocusPositions ==
  {position \in {PanTarget(point) : point \in TargetPoints}
                  \cup {freeCamera.target, freeCamera.cameraPosition.base} :
     OffsetKnown(freeCamera.cameraPosition, position)}

\* C21: focusOn(point, distance) leaves the pan target at point and the target
\* distance and the current distance at the distance given; focusOn(point)
\* leaves the pan target at point and takes the spherical state, its target
\* and both distances from the camera's position relative to point.  (Stated
\* of the focusOn calls that a setTarget call could not have made.)
C21_FocusOnSetsDistance ==
  [][\A position \in FocusPositions, distance \in FocusDistances :
       (/\ CameraFocusOn
        /\ ~CameraSetTarget
        /\ freeCamera' = FreeCameraController_focusOn(freeCamera, position, distance))
       => /\ freeCamera'.target = position
          /\ distance # << >> =>
               /\ freeCamera'.targetDistance = distance[1]
               /\ freeCamera'.distance = distance[1]
          /\ distance = << >> =>
               LET spherical == SphericalOfOffset(freeCamera.cameraPosition, position)
               IN  /\ freeCamera'.spherical = spherical
                   /\ freeCamera'.sphericalTarget = spherical
                   /\ freeCamera'.distance = spherical.radius
                   /\ freeCamera'.targetDistance = spherical.radius]_vars

\* C22: a mousemove while no button was pressed since enable() changes no
\* target state, and update() moves the pan target only by the keys pressed,
\* and not released, since enable().
C22_PressesEndAtDisable ==
  [][/\ (MouseMove /\ ~sinceEnable.mouseDown) =>
          /\ freeCamera'.sphericalTarget = freeCamera.sphericalTarget
          /\ freeCamera'.targetDistance = freeCamera.targetDistance
          /\ freeCamera'.target = freeCamera.target
     /\ (CameraUpdate /\ freeCamera.isEnabled) =>
          freeCamera'.target.move =
            Add(freeCamera.target.move,
                MoveVector([freeCamera EXCEPT !.keys = @ \cap sinceEnable.keys]))]_vars

\* C23: handling a completed edit calls only the setters of its own kind
\* (position setters for translate, rotation setters for rotate, size setters
\* for scale), and changes no instance other than the one it is applied to.
C23_OwnSettersOwnInstance ==
  [][ObjectChange =>
       /\ handled'.transformType = "translate" =>
            calls' \subseteq {"setX", "setY", "setZ"}
       /\ handled'.transformType = "rotate" =>
            calls' \subseteq {"setAngle", "setRotationX", "setRotationY"}
       /\ handled'.transformType = "scale" =>
            calls' \subseteq {"setWidth", "setHeight", "setDepth"}
       /\ handled' = NoEdit => calls' = {}
       /\ \A i \in Instances :
            i # handled'.instance => instances'[i] = instances[i]]_vars

\* a scale edit was applied to i2, a 3D instance, while the map also holds i1:
\* the three size setters ran and i1 is as it was created
C23_Witness ==
  /\ handled = [instance |-> "i2", transformType |-> "scale"]
  /\ Len(selectedInstances3D.instanceToObjectMap) = 2
  /\ calls = {"setWidth", "setHeight", "setDepth"}
  /\ instances["i2"] # InitialInstances["i2"]
  /\ instances["i1"] = InitialInstances["i1"]

\* C24: while 3D is available, the mode SelectedInstances3D reports, the mode
\* Gizmo3DController reports and the widget's mode are equal, and the object
\* the gizmo controller records as current is the object the widget is
\* attached to, whatever setMode, setEnabled, updateSelection and toggleSpace
\* calls were made on SelectedInstances3D.
C24_ModeAndObjectInStep ==
  (host = "sync" /\ isAvailable) =>
    /\ getCurrentMode = Gizmo3DController_getCurrentMode(gizmo)
    /\ getCurrentMode = gizmo.transformControls.mode
    /\ gizmo.currentObject = Attached

\* the gizmo is enabled, attached to the single selected instance's node and
\* in rotate mode
C24_Witness ==
  /\ host = "sync" /\ isAvailable
  /\ selectedInstances3D.enabled
  /\ getCurrentMode = "rotate"
  /\ gizmo.transformControls.mode = "rotate"
  /\ gizmo.currentObject = "n1"
  /\ Attached = "n1"

====
